---------------------------- MODULE Spec2Model ----------------------------
(***************************************************************************)
(* Model of work_hours_final.py: a script that reads work_hours_data.csv,  *)
(* sums the hours per parent and per (parent, title), ranks parents and    *)
(* tasks by descending hours, draws a stacked-bar chart and prints a       *)
(* report.                                                                 *)
(*                                                                         *)
(* Numbers.  The hours are Python floats.  Every finite float is an        *)
(* integer multiple of a power of two, so the values are modelled as       *)
(* integers (multiples of one common quantum) and a float addition is the  *)
(* exact sum rounded to Precision significant bits, ties to even.  The     *)
(* interpreter's floats have 53 significant bits; Precision scales that    *)
(* down so that sums of a few small values already round.  Products and    *)
(* quotients only feed the comparisons of the label rule and of the report *)
(* thresholds; they are compared exactly (by cross-multiplication).        *)
(***************************************************************************)
EXTENDS Integers, Sequences, FiniteSets, TLC

\* ------------------------------------------------------------------ bounds
\* Data rows of an input file of the general shape.
MaxRows == 3
\* Data rows of an input file with one parent and pairwise distinct titles.
MaxWide == 6
\* Significant bits of a float.
Precision == 2

\* ------------------------------------------------------- program constants
\* len(row) >= 3
MinFields == 3
\* percentage > 3 and parent_total * 0.03, both as hundredths
LabelPct == 3
\* sorted_tasks[:5]
ReportTop == 5
\* percentage >= 1
ReportPct == 1

VARIABLES
    file_kind,       \* "missing", "empty" (no line at all) or "lines"
    rows,            \* the data rows the csv reader has yielded so far
    pc,              \* position of the script
    idx,             \* 1-based position of the running for loop
    data,            \* list of (title, parent, hours)
    stdout,          \* diagnostics printed by the loader and the driver
    parent_data,     \* defaultdict: parent -> defaultdict: title -> hours
    parent_totals,   \* defaultdict: parent -> hours
    sorted_parents,  \* parents by descending total
    bars,            \* the stacked bars drawn so far
    top_labels,      \* the total labels drawn above the bars
    total_hours,     \* the global of that name (lines 122 and 136)
    chart_saved,     \* whether savefig has written the chart file
    report,          \* the per-parent blocks of the printed report
    exit_status      \* -1 while running, then the process exit status

vars == <<file_kind, rows, pc, idx, data, stdout, parent_data, parent_totals,
          sorted_parents, bars, top_labels, total_hours, chart_saved, report,
          exit_status>>

\* ------------------------------------------------------------------ inputs
Parents == {"P", "Q"}
WideTitles == <<"t1", "t2", "t3", "t4", "t5", "t6", "t7", "t8">>

\* The numeric literals of the input alphabet and the float each denotes.
NumText ==
    [s \in {"0", "1", "2", "3", "-2", "128"} |->
        CASE s = "0" -> 0
          [] s = "1" -> 1
          [] s = "2" -> 2
          [] s = "3" -> 3
          [] s = "-2" -> 0 - 2
          [] s = "128" -> 128]

\* float(s) succeeds; any other text raises ValueError.
IsFloat(s) == s \in DOMAIN NumText

\* float(s)
ParseFloat(s) == NumText[s]

\* Rows of a general file: valid rows, a row with a non-numeric hours field,
\* a short row, and a row with a trailing fourth field.
RowAlphabet ==
    {<<"a", "P", h>> : h \in {"0", "1", "2", "3", "-2"}}
        \cup {<<"b", "P", h>> : h \in {"0", "1", "2", "3"}}
        \cup {<<"a", "Q", h>> : h \in {"1", "2"}}
        \cup {<<"b", "Q", "abc">>, <<"a", "P">>, <<"b", "Q", "3", "note">>}

\* The i-th row of a wide file: parent P, a title of its own.
WideRow(i) == {<<WideTitles[i], "P", h>> : h \in {"0", "1", "128"}}

WideRows == UNION {WideRow(i) : i \in 1..MaxWide}

\* The files the model reads.
InputOK(rs) ==
    \/ Len(rs) <= MaxRows /\ \A i \in 1..Len(rs) : rs[i] \in RowAlphabet
    \/ Len(rs) <= MaxWide /\ \A i \in 1..Len(rs) : rs[i] \in WideRow(i)

\* ------------------------------------------------------------------ floats
Abs(n) == IF n < 0 THEN 0 - n ELSE n

RECURSIVE Shift(_, _)
\* Least e >= k with n < 2^(Precision + e), for n >= 0.
Shift(n, k) == IF n < 2 ^ (Precision + k) THEN k ELSE Shift(n, k + 1)

\* The float nearest to the integer n, ties to even.
Round(n) ==
    IF Abs(n) < 2 ^ Precision THEN n
    ELSE LET q == 2 ^ Shift(Abs(n), 1)
             m == Abs(n) \div q
             r == Abs(n) % q
             up == (2 * r > q) \/ (2 * r = q /\ m % 2 = 1)
             v == (IF up THEN m + 1 ELSE m) * q
         IN  IF n < 0 THEN 0 - v ELSE v

\* x + y on floats
FAdd(x, y) == Round(x + y)

RECURSIVE FSum(_)
\* sum(values): left to right from 0
FSum(s) == IF s = <<>> THEN 0 ELSE FAdd(FSum(SubSeq(s, 1, Len(s) - 1)), s[Len(s)])

\* (hours / total) * 100 > k, for total # 0
PctGT(hours, total, k) ==
    IF total > 0 THEN 100 * hours > k * total ELSE 100 * hours < k * total

\* (hours / total) * 100 >= k, for total # 0
PctGE(hours, total, k) ==
    IF total > 0 THEN 100 * hours >= k * total ELSE 100 * hours =< k * total

\* ----------------------------------------------------------- dictionaries
EmptyDict == [k \in {} |-> 0]

\* d[k] of a defaultdict: the value, the default when k is absent
Get(d, k, dflt) == IF k \in DOMAIN d THEN d[k] ELSE dflt

\* the defaultdict after d[k] was read: an absent key is inserted
Touched(d, k, dflt) == [x \in DOMAIN d \cup {k} |-> IF x \in DOMAIN d THEN d[x] ELSE dflt]

\* d[k] = v
Put(d, k, v) == [x \in DOMAIN d \cup {k} |-> IF x = k THEN v ELSE d[x]]

\* The slot order of the hash table: the order in which a dict yields keys.
KeySlots == <<"a", "b", "P", "Q", "t8", "t7", "t6", "t5", "t4", "t3", "t2", "t1">>

\* d.keys()
Keys(d) == SelectSeq(KeySlots, LAMBDA k : k \in DOMAIN d)

\* d.items()
Items(d) == [i \in 1..Len(Keys(d)) |-> <<Keys(d)[i], d[Keys(d)[i]]>>]

\* d.values()
Values(d) == [i \in 1..Len(Keys(d)) |-> d[Keys(d)[i]]]

\* ----------------------------------------------------------------- sorting
RECURSIVE InsertDesc(_, _)
\* x placed in the descending sequence s behind every item whose value is >= its own
InsertDesc(x, s) ==
    IF s = <<>> THEN <<x>>
    ELSE IF s[1][2] >= x[2] THEN <<s[1]>> \o InsertDesc(x, Tail(s))
    ELSE <<x>> \o s

RECURSIVE InsertAsc(_, _)
InsertAsc(x, s) ==
    IF s = <<>> THEN <<x>>
    ELSE IF s[1][2] =< x[2] THEN <<s[1]>> \o InsertAsc(x, Tail(s))
    ELSE <<x>> \o s

RECURSIVE SortedAsc(_)
\* Variant of SortedDesc: reverse=True left out, so the order is ascending.
SortedAsc(s) ==
    IF s = <<>> THEN <<>>
    ELSE InsertAsc(s[Len(s)], SortedAsc(SubSeq(s, 1, Len(s) - 1)))

RECURSIVE SortedDesc(_)
\* sorted(items, key=lambda x: x[1], reverse=True): descending and stable
SortedDesc(s) ==
    IF s = <<>> THEN <<>>
    ELSE InsertDesc(s[Len(s)], SortedDesc(SubSeq(s, 1, Len(s) - 1)))

\* Variant of SortCandidates: every known parent is ranked, present or not.
SortCandidatesAll(d) == SelectSeq(KeySlots, LAMBDA k : k \in Parents)

\* The keys handed to sorted() on line 63: parent_totals.keys()
SortCandidates(d) == Keys(d)

RECURSIVE TouchAll(_, _, _)
\* the defaultdict after d[k] was read for every k of the sequence ks
TouchAll(d, ks, dflt) ==
    IF ks = <<>> THEN d ELSE TouchAll(Touched(d, ks[1], dflt), Tail(ks), dflt)

\* sorted(keys, key=lambda x: parent_totals[x], reverse=True)
RankKeys(ks, d) ==
    LET sorted == SortedDesc([i \in 1..Len(ks) |-> <<ks[i], Get(d, ks[i], 0)>>])
    IN  [i \in 1..Len(sorted) |-> sorted[i][1]]

\* ------------------------------------------------------------------ loader
Msg(kind, row, n) == [kind |-> kind, row |-> row, n |-> n]

\* Variant of HasFields: exactly three fields are required.
HasFieldsExact(row) == Len(row) = MinFields

\* len(row) >= 3
HasFields(row) == Len(row) >= MinFields

\* The record of a row that passes both tests of the loader.
RecordOf(row) == <<row[1], row[2], ParseFloat(row[3])>>

\* data after the loop body of lines 27-34 ran on row
LoadedData(d, row) ==
    IF HasFields(row) /\ IsFloat(row[3]) THEN Append(d, RecordOf(row)) ELSE d

\* stdout after the loop body of lines 27-34 ran on row
LoadedOut(out, row) ==
    IF HasFields(row) /\ ~IsFloat(row[3]) THEN Append(out, Msg("skip", row, 0)) ELSE out

\* -------------------------------------------------------------- aggregator
\* Variant of AddTo: = in place of +=.
AddToOverwrite(d, k, hours) == Put(d, k, hours)

\* d[k] += hours on a defaultdict(float)
AddTo(d, k, hours) == Put(d, k, FAdd(Get(d, k, 0), hours))

\* Variant of AddTask: the hours of a repeated (parent, title) replace the sum.
AddTaskOverwrite(pd, parent, title, hours) ==
    Put(pd, parent, Put(Get(pd, parent, EmptyDict), title, hours))

\* parent_data[parent][title] += hours
AddTask(pd, parent, title, hours) ==
    Put(pd, parent, AddTo(Get(pd, parent, EmptyDict), title, hours))

\* ---------------------------------------------------------------- renderer
\* Variant of ShowLabel: the percentage test is dropped as redundant.
ShowLabelHeightOnly(hours, total) == 100 * hours > LabelPct * total

\* hours > parent_total * 0.03 and percentage > 3
ShowLabel(hours, total) ==
    100 * hours > LabelPct * total /\ PctGT(hours, total, LabelPct)

RECURSIVE StackBottom(_, _)
\* bottom after the first k segments of the bar: bottom += hours
StackBottom(st, k) == IF k = 0 THEN 0 ELSE FAdd(StackBottom(st, k - 1), st[k][2])

\* The segments of one bar, in drawing order (lines 88-109).
Segments(st, total) ==
    [k \in 1..Len(st) |->
        [title |-> st[k][1], hours |-> st[k][2],
         bottom |-> StackBottom(st, k - 1), label |-> ShowLabel(st[k][2], total)]]

\* ------------------------------------------------------------------ report
Min(a, b) == IF a < b THEN a ELSE b

\* Variant of TopTasks: no limit on the listed tasks.
TopTasksAll(st) == st

\* sorted_tasks[:5]
TopTasks(st) == SubSeq(st, 1, Min(ReportTop, Len(st)))

\* sorted_tasks[5:]
RestTasks(st) == SubSeq(st, ReportTop + 1, Len(st))

\* The task lines printed by lines 165-168.
TaskLines(st, total) ==
    SelectSeq(TopTasks(st), LAMBDA x : PctGE(x[2], total, ReportPct))

\* sum([hours for _, hours in sorted_tasks[5:]])
OtherHours(st) == FSum([i \in 1..Len(RestTasks(st)) |-> RestTasks(st)[i][2]])

\* The "other N items" line of lines 170-174: <<N, hours>>, or <<>> when not printed.
OtherLine(st) ==
    IF Len(st) > ReportTop /\ OtherHours(st) > 0
    THEN <<Len(st) - ReportTop, OtherHours(st)>>
    ELSE <<>>

\* ----------------------------------------------------------------- actions
Init ==
    /\ file_kind \in {"missing", "empty", "lines"}
    /\ rows = <<>>
    /\ pc = "start"
    /\ idx = 0
    /\ data = <<>>
    /\ stdout = <<>>
    /\ parent_data = EmptyDict
    /\ parent_totals = EmptyDict
    /\ sorted_parents = <<>>
    /\ bars = <<>>
    /\ top_labels = <<>>
    /\ total_hours = 0
    /\ chart_saved = FALSE
    /\ report = <<>>
    /\ exit_status = 0 - 1

\* Lines 35-40 and 45: the file does not exist; the loader reports it and returns [].
OpenMissing ==
    /\ pc = "start" /\ file_kind = "missing"
    /\ stdout' = Append(stdout, Msg("missing", <<>>, 0))
    /\ data' = <<>>
    /\ pc' = "check"
    /\ UNCHANGED <<file_kind, rows, idx, parent_data, parent_totals, sorted_parents,
                   bars, top_labels, total_hours, chart_saved, report, exit_status>>

\* Lines 20-25 on a file without any line: next(reader) raises StopIteration,
\* which nothing catches; the interpreter ends the process with status 1.
OpenEmpty ==
    /\ pc = "start" /\ file_kind = "empty"
    /\ stdout' = Append(stdout, Msg("reading", <<>>, 0))
    /\ pc' = "crash"
    /\ exit_status' = 1
    /\ UNCHANGED <<file_kind, rows, idx, data, parent_data, parent_totals,
                   sorted_parents, bars, top_labels, total_hours, chart_saved, report>>

\* Lines 20-25 on a file with a first line: the header is skipped.
SkipHeader ==
    /\ pc = "start" /\ file_kind = "lines"
    /\ stdout' = Append(stdout, Msg("reading", <<>>, 0))
    /\ pc' = "load"
    /\ UNCHANGED <<file_kind, rows, idx, data, parent_data, parent_totals,
                   sorted_parents, bars, top_labels, total_hours, chart_saved, report,
                   exit_status>>

\* Lines 26-34: one iteration of the row loop.
ReadRow ==
    /\ pc = "load"
    /\ \E row \in RowAlphabet \cup WideRows :
        /\ InputOK(Append(rows, row))
        /\ rows' = Append(rows, row)
        /\ data' = LoadedData(data, row)
        /\ stdout' = LoadedOut(stdout, row)
    /\ UNCHANGED <<file_kind, pc, idx, parent_data, parent_totals, sorted_parents,
                   bars, top_labels, total_hours, chart_saved, report, exit_status>>

\* Lines 26, 41 and 45: the reader is exhausted and the loader returns data.
EndOfFile ==
    /\ pc = "load"
    /\ pc' = "check"
    /\ UNCHANGED <<file_kind, rows, idx, data, stdout, parent_data, parent_totals,
                   sorted_parents, bars, top_labels, total_hours, chart_saved, report,
                   exit_status>>

\* Lines 48-50: no record; the diagnostic and exit(1).
ExitNoData ==
    /\ pc = "check" /\ data = <<>>
    /\ stdout' = Append(stdout, Msg("nodata", <<>>, 0))
    /\ pc' = "exited"
    /\ exit_status' = 1
    /\ UNCHANGED <<file_kind, rows, idx, data, parent_data, parent_totals,
                   sorted_parents, bars, top_labels, total_hours, chart_saved, report>>

\* Lines 48-56: there are records; the count is printed, the dicts are created.
StartAggregation ==
    /\ pc = "check" /\ data # <<>>
    /\ stdout' = Append(stdout, Msg("count", <<>>, Len(data)))
    /\ parent_data' = EmptyDict
    /\ parent_totals' = EmptyDict
    /\ pc' = "aggregate"
    /\ idx' = 1
    /\ UNCHANGED <<file_kind, rows, data, sorted_parents, bars, top_labels,
                   total_hours, chart_saved, report, exit_status>>

\* Lines 58-60: one iteration of the aggregation loop.
AggregateRecord ==
    /\ pc = "aggregate" /\ idx <= Len(data)
    /\ LET title == data[idx][1]
           parent == data[idx][2]
           hours == data[idx][3]
       IN  /\ parent_data' = AddTask(parent_data, parent, title, hours)
           /\ parent_totals' = AddTo(parent_totals, parent, hours)
    /\ idx' = idx + 1
    /\ UNCHANGED <<file_kind, rows, pc, data, stdout, sorted_parents, bars,
                   top_labels, total_hours, chart_saved, report, exit_status>>

\* Lines 63-75: the parents are ranked; the sort key reads parent_totals[x].
RankParents ==
    /\ pc = "aggregate" /\ idx > Len(data)
    /\ LET ks == SortCandidates(parent_totals)
       IN  /\ parent_totals' = TouchAll(parent_totals, ks, 0)
           /\ sorted_parents' = RankKeys(ks, parent_totals)
    /\ pc' = "bars"
    /\ idx' = 1
    /\ UNCHANGED <<file_kind, rows, data, stdout, parent_data, bars, top_labels,
                   total_hours, chart_saved, report, exit_status>>

\* Lines 78-109: one bar. tasks and parent_total are reads of the defaultdicts.
DrawBar ==
    /\ pc = "bars" /\ idx <= Len(sorted_parents)
    /\ LET parent == sorted_parents[idx]
           pd == Touched(parent_data, parent, EmptyDict)
           pt == Touched(parent_totals, parent, 0)
           sorted_tasks == SortedDesc(Items(pd[parent]))
       IN  /\ ~(sorted_tasks # <<>> /\ pt[parent] = 0)
           /\ parent_data' = pd
           /\ parent_totals' = pt
           /\ bars' = Append(bars, [parent |-> parent,
                                    segments |-> Segments(sorted_tasks, pt[parent])])
    /\ idx' = idx + 1
    /\ UNCHANGED <<file_kind, rows, pc, data, stdout, sorted_parents, top_labels,
                   total_hours, chart_saved, report, exit_status>>

\* Line 89 with parent_total == 0: hours / parent_total raises ZeroDivisionError
\* on the first segment; nothing catches it.
DrawBarZeroDivision ==
    /\ pc = "bars" /\ idx <= Len(sorted_parents)
    /\ LET parent == sorted_parents[idx]
           pd == Touched(parent_data, parent, EmptyDict)
           pt == Touched(parent_totals, parent, 0)
       IN  /\ Items(pd[parent]) # <<>> /\ pt[parent] = 0
           /\ parent_data' = pd
           /\ parent_totals' = pt
    /\ pc' = "crash"
    /\ exit_status' = 1
    /\ UNCHANGED <<file_kind, rows, idx, data, stdout, sorted_parents, bars,
                   top_labels, total_hours, chart_saved, report>>

\* Lines 112-118: axis labels, title and ticks; the label loop starts.
SetAxes ==
    /\ pc = "bars" /\ idx > Len(sorted_parents)
    /\ pc' = "labels"
    /\ idx' = 1
    /\ UNCHANGED <<file_kind, rows, data, stdout, parent_data, parent_totals,
                   sorted_parents, bars, top_labels, total_hours, chart_saved, report,
                   exit_status>>

\* Lines 121-125: the label above one bar.
DrawTopLabel ==
    /\ pc = "labels" /\ idx <= Len(sorted_parents)
    /\ LET parent == sorted_parents[idx]
           pt == Touched(parent_totals, parent, 0)
       IN  /\ FSum(Values(pt)) # 0
           /\ parent_totals' = pt
           /\ total_hours' = pt[parent]
           /\ top_labels' = Append(top_labels, [parent |-> parent, total |-> pt[parent],
                                                 of |-> FSum(Values(pt))])
    /\ idx' = idx + 1
    /\ UNCHANGED <<file_kind, rows, pc, data, stdout, parent_data, sorted_parents,
                   bars, chart_saved, report, exit_status>>

\* Line 123 with sum(parent_totals.values()) == 0: ZeroDivisionError.
TopLabelZeroDivision ==
    /\ pc = "labels" /\ idx <= Len(sorted_parents)
    /\ LET parent == sorted_parents[idx]
           pt == Touched(parent_totals, parent, 0)
       IN  /\ FSum(Values(pt)) = 0
           /\ parent_totals' = pt
           /\ total_hours' = pt[parent]
    /\ pc' = "crash"
    /\ exit_status' = 1
    /\ UNCHANGED <<file_kind, rows, idx, data, stdout, parent_data, sorted_parents,
                   bars, top_labels, chart_saved, report>>

\* Lines 128-154: grid, limits, the grand total, savefig and the report header.
SaveChart ==
    /\ pc = "labels" /\ idx > Len(sorted_parents)
    /\ total_hours' = FSum(Values(parent_totals))
    /\ chart_saved' = TRUE
    /\ stdout' = Append(stdout, Msg("total", <<>>, FSum(Values(parent_totals))))
    /\ pc' = "report"
    /\ idx' = 1
    /\ UNCHANGED <<file_kind, rows, data, parent_data, parent_totals, sorted_parents,
                   bars, top_labels, report, exit_status>>

\* Lines 156-175: the block of one parent; the divisions of lines 158 and 166
\* raise ZeroDivisionError on a zero divisor.
ReportParent ==
    /\ pc = "report" /\ idx <= Len(sorted_parents)
    /\ LET parent == sorted_parents[idx]
           pt == Touched(parent_totals, parent, 0)
           pd == Touched(parent_data, parent, EmptyDict)
           total == pt[parent]
           sorted_tasks == SortedDesc(Items(pd[parent]))
       IN  /\ parent_totals' = pt
           /\ IF total_hours = 0
              THEN /\ pc' = "crash" /\ exit_status' = 1
                   /\ UNCHANGED <<parent_data, report, idx>>
              ELSE /\ parent_data' = pd
                   /\ IF sorted_tasks # <<>> /\ total = 0
                      THEN /\ pc' = "crash" /\ exit_status' = 1
                           /\ UNCHANGED <<report, idx>>
                      ELSE /\ report' = Append(report,
                                  [parent |-> parent, total |-> total,
                                   ranked |-> sorted_tasks,
                                   lines |-> TaskLines(sorted_tasks, total),
                                   other |-> OtherLine(sorted_tasks)])
                           /\ idx' = idx + 1
                           /\ UNCHANGED <<pc, exit_status>>
    /\ UNCHANGED <<file_kind, rows, data, stdout, sorted_parents, bars, top_labels,
                   total_hours, chart_saved>>

\* Lines 177-178: the closing lines; the script ends and the status is 0.
Finish ==
    /\ pc = "report" /\ idx > Len(sorted_parents)
    /\ stdout' = Append(stdout, Msg("saved", <<>>, 0))
    /\ pc' = "done"
    /\ exit_status' = 0
    /\ UNCHANGED <<file_kind, rows, idx, data, parent_data, parent_totals,
                   sorted_parents, bars, top_labels, total_hours, chart_saved, report>>

Next ==
    \/ OpenMissing
    \/ OpenEmpty
    \/ SkipHeader
    \/ ReadRow
    \/ EndOfFile
    \/ ExitNoData
    \/ StartAggregation
    \/ AggregateRecord
    \/ RankParents
    \/ DrawBar
    \/ DrawBarZeroDivision
    \/ SetAxes
    \/ DrawTopLabel
    \/ TopLabelZeroDivision
    \/ SaveChart
    \/ ReportParent
    \/ Finish

Spec == Init /\ [][Next]_vars

\* ------------------------------------------------------------ properties
Terminated == pc \in {"done", "exited", "crash"}

Printed(kind) == \E i \in 1..Len(stdout) : stdout[i].kind = kind

RECURSIVE ExactSum(_)
\* The sum of a sequence of numbers, without rounding.
ExactSum(s) == IF s = <<>> THEN 0 ELSE s[1] + ExactSum(Tail(s))

\* The sum of the magnitudes of a sequence of numbers, without rounding.
AbsSum(s) == ExactSum([i \in 1..Len(s) |-> Abs(s[i])])

HoursOf(recs) == [i \in 1..Len(recs) |-> recs[i][3]]

\* The records the aggregation loop has consumed so far.
Aggregated ==
    IF pc \in {"start", "load", "check"} THEN <<>>
    ELSE IF pc = "aggregate" THEN SubSeq(data, 1, idx - 1)
    ELSE data

RecordsOfParent(recs, p) == SelectSeq(recs, LAMBDA r : r[2] = p)

RecordsOfTask(recs, p, t) == SelectSeq(recs, LAMBDA r : r[2] = p /\ r[1] = t)

\* No float addition over these records can round: every partial sum is an
\* integer below 2^Precision in magnitude.
SumsExactly(recs) == AbsSum(HoursOf(recs)) < 2 ^ Precision

Range(s) == {s[i] : i \in 1..Len(s)}

NonIncreasing(s) == \A i, j \in 1..Len(s) : i < j => s[i] >= s[j]

\* C1: whenever the run has ended with no record loaded, the "cannot read data"
\* diagnostic was printed, the exit status is non-zero, nothing was aggregated
\* or drawn and the chart file was not written.
C1_NoDataIsReportedAndFatal ==
    (Terminated /\ data = <<>>) =>
        /\ Printed("nodata")
        /\ exit_status > 0
        /\ parent_data = EmptyDict /\ parent_totals = EmptyDict
        /\ sorted_parents = <<>> /\ bars = <<>> /\ top_labels = <<>>
        /\ ~chart_saved

\* C2: whenever the run has ended with at least one record loaded, it ended
\* normally: status 0, the chart written, every parent drawn and reported.
C2_RecordsRunToCompletion ==
    (Terminated /\ data # <<>>) =>
        /\ pc = "done"
        /\ exit_status = 0
        /\ chart_saved
        /\ Len(bars) = Len(sorted_parents)
        /\ Len(report) = Len(sorted_parents)

\* C3 as stated: the sum of the per-parent totals (the grand total of line 136)
\* equals the sum of the hours of the aggregated records, the latter taken
\* exactly or as the float sum in file order.
C3_TotalsSumToRecordHours ==
    FSum(Values(parent_totals)) \in
        {ExactSum(HoursOf(Aggregated)), FSum(HoursOf(Aggregated))}

\* C3 amended: when no addition over the aggregated records can round, the sum
\* of the per-parent totals, exact or float, equals the sum of their hours.
C3_TotalsSumToRecordHoursWhenExact ==
    SumsExactly(Aggregated) =>
        /\ FSum(Values(parent_totals)) = ExactSum(HoursOf(Aggregated))
        /\ ExactSum(Values(parent_totals)) = ExactSum(HoursOf(Aggregated))
        /\ FSum(HoursOf(Aggregated)) = ExactSum(HoursOf(Aggregated))

C3_Witness ==
    /\ pc = "bars"
    /\ Len(data) = 3
    /\ SumsExactly(data)
    /\ Cardinality(DOMAIN parent_totals) = 2
    /\ \A p \in DOMAIN parent_totals : parent_totals[p] > 0

\* The sums one can form of a parent's per-title hours: exact, float in dict
\* order, float in ranked order (the height the bar reaches on line 108).
TaskSums(p) ==
    {ExactSum(Values(parent_data[p])),
     FSum(Values(parent_data[p])),
     FSum(HoursOf([k \in 1..Len(Keys(parent_data[p])) |->
                     <<0, 0, SortedDesc(Items(parent_data[p]))[k][2]>>]))}

\* C4 as stated: after every iteration of the aggregation loop the two dicts
\* have the same parents and each parent's task hours sum to its total.
C4_TaskHoursSumToTotal ==
    /\ DOMAIN parent_data = DOMAIN parent_totals
    /\ \A p \in DOMAIN parent_data \cap DOMAIN parent_totals :
        parent_totals[p] \in TaskSums(p)

\* C4 amended: after every iteration the two dicts have the same parents, each
\* parent has one entry per title among its records, and for a parent over
\* whose records no addition can round, every entry is the sum of the records
\* of that (parent, title) and the entries sum to the parent's total.
C4_TaskHoursSumToTotalWhenExact ==
    /\ DOMAIN parent_data = DOMAIN parent_totals
    /\ DOMAIN parent_data = {r[2] : r \in Range(Aggregated)}
    /\ \A p \in DOMAIN parent_data \cap DOMAIN parent_totals :
        /\ DOMAIN parent_data[p] = {r[1] : r \in Range(RecordsOfParent(Aggregated, p))}
        /\ SumsExactly(RecordsOfParent(Aggregated, p)) =>
            /\ TaskSums(p) = {parent_totals[p]}
            /\ \A t \in DOMAIN parent_data[p] :
                parent_data[p][t] = ExactSum(HoursOf(RecordsOfTask(Aggregated, p, t)))

C4_Witness ==
    /\ pc = "aggregate" /\ idx = 4
    /\ \E p \in DOMAIN parent_data :
        /\ Len(RecordsOfParent(Aggregated, p)) = 3
        /\ SumsExactly(RecordsOfParent(Aggregated, p))
        /\ Cardinality(DOMAIN parent_data[p]) = 2
        /\ parent_totals[p] = 3

\* st, a sequence of (title, hours), is a permutation of the tasks of parent p
\* in non-increasing order of hours.
TasksRanked(p, st) ==
    /\ p \in DOMAIN parent_data
    /\ Len(st) = Cardinality(DOMAIN parent_data[p])
    /\ {st[k][1] : k \in 1..Len(st)} = DOMAIN parent_data[p]
    /\ \A k \in 1..Len(st) : st[k][2] = parent_data[p][st[k][1]]
    /\ NonIncreasing([k \in 1..Len(st) |-> st[k][2]])

BarTasks(bar) ==
    [k \in 1..Len(bar.segments) |-> <<bar.segments[k].title, bar.segments[k].hours>>]

\* C5: once ranked, sorted_parents is a permutation of the aggregated parents
\* in non-increasing order of total; every bar and every report block follows
\* that order, and lists the parent's tasks as a permutation in non-increasing
\* order of hours, the same sequence in the chart and in the report.
C5_RankingIsSortedPermutation ==
    /\ sorted_parents # <<>> =>
        /\ Len(sorted_parents) = Cardinality(DOMAIN parent_totals)
        /\ Range(sorted_parents) = DOMAIN parent_totals
        /\ NonIncreasing([i \in 1..Len(sorted_parents) |->
                            parent_totals[sorted_parents[i]]])
    /\ Len(bars) =< Len(sorted_parents)
    /\ \A i \in 1..Len(bars) :
        /\ bars[i].parent = sorted_parents[i]
        /\ TasksRanked(bars[i].parent, BarTasks(bars[i]))
    /\ Len(report) =< Len(bars)
    /\ \A i \in 1..Len(report) :
        /\ report[i].parent = sorted_parents[i]
        /\ TasksRanked(report[i].parent, report[i].ranked)
        /\ report[i].ranked = BarTasks(bars[i])

C5_Witness ==
    /\ pc = "done"
    /\ Len(report) = 2
    /\ parent_totals[sorted_parents[1]] > parent_totals[sorted_parents[2]]
    /\ \E i \in 1..2 :
        /\ Len(report[i].ranked) = 2
        /\ report[i].ranked[1][2] > report[i].ranked[2][2]

\* The rows of rs the loader must accept, as records.
ExpectedRecords(rs) ==
    LET ok == SelectSeq(rs, LAMBDA r : Len(r) >= 3 /\ r[3] \in DOMAIN NumText)
    IN  [i \in 1..Len(ok) |-> <<ok[i][1], ok[i][2], NumText[ok[i][3]]>>]

\* The rows of rs the loader must name in a diagnostic.
ExpectedSkips(rs) ==
    LET bad == SelectSeq(rs, LAMBDA r : Len(r) >= 3 /\ r[3] \notin DOMAIN NumText)
    IN  [i \in 1..Len(bad) |-> [kind |-> "skip", row |-> bad[i], n |-> 0]]

RECURSIVE TotalsOf(_)
TotalsOf(recs) ==
    IF recs = <<>> THEN EmptyDict
    ELSE LET r == recs[Len(recs)]
             d == TotalsOf(SubSeq(recs, 1, Len(recs) - 1))
         IN  [p \in DOMAIN d \cup {r[2]} |->
                 FAdd(IF p \in DOMAIN d THEN d[p] ELSE 0, IF p = r[2] THEN r[3] ELSE 0)]

\* C6: for a file with a header, data is exactly the rows read so far that
\* have at least 3 fields and a numeric hours field, in file order with
\* repetitions; the "skipped row" diagnostics are exactly the rows with at
\* least 3 fields and a non-numeric hours field, one each and in file order
\* (none for a short row); and the totals are those of the accepted rows.
C6_LoaderKeepsExactlyValidRows ==
    file_kind = "lines" =>
        /\ data = ExpectedRecords(rows)
        /\ SelectSeq(stdout, LAMBDA m : m.kind = "skip") = ExpectedSkips(rows)
        /\ pc \in {"bars", "labels", "report", "done"} =>
            parent_totals = TotalsOf(ExpectedRecords(rows))

C6_Witness ==
    /\ pc = "bars"
    /\ Len(rows) = 3
    /\ Len(rows[1]) >= 3 /\ rows[1][3] \notin DOMAIN NumText
    /\ Len(rows[2]) < 3
    /\ Len(rows[3]) > 3
    /\ Len(data) = 1

\* C7: every record of data has non-negative hours.
C7_LoadedHoursNonNegative ==
    \A i \in 1..Len(data) : data[i][3] >= 0

\* C8: a record with hours 0, once aggregated, has its title in its parent's
\* task mapping; in every bar and report block a task whose accumulated hours
\* are 0 is present, comes after every task with larger hours, and its bar
\* segment carries no label.
C8_ZeroHoursRankedLastUnlabelled ==
    /\ \A i \in 1..Len(Aggregated) :
        Aggregated[i][3] = 0 =>
            /\ Aggregated[i][2] \in DOMAIN parent_data
            /\ Aggregated[i][1] \in DOMAIN parent_data[Aggregated[i][2]]
    /\ \A i \in 1..Len(bars) :
        LET seg == bars[i].segments
            tasks == parent_data[bars[i].parent]
        IN  /\ \A t \in DOMAIN tasks :
                tasks[t] = 0 => \E k \in 1..Len(seg) : seg[k].title = t /\ seg[k].hours = 0
            /\ \A k \in 1..Len(seg) :
                seg[k].hours = 0 =>
                    /\ ~seg[k].label
                    /\ \A j \in 1..Len(seg) : seg[j].hours > 0 => j < k
    /\ \A i \in 1..Len(report) :
        LET st == report[i].ranked
            tasks == parent_data[report[i].parent]
        IN  /\ \A t \in DOMAIN tasks :
                tasks[t] = 0 => \E k \in 1..Len(st) : st[k] = <<t, 0>>
            /\ \A k \in 1..Len(st) :
                st[k][2] = 0 => \A j \in 1..Len(st) : st[j][2] > 0 => j < k

C8_Witness ==
    /\ pc = "done"
    /\ \E i \in 1..Len(data) : data[i][3] = 0
    /\ \E i \in 1..Len(bars) :
        /\ Len(bars[i].segments) = 2
        /\ bars[i].segments[1].hours > 0 /\ bars[i].segments[1].label
        /\ bars[i].segments[2].hours = 0

\* C9: in every report block, a task has a line iff it is among the first 5
\* of the ranked tasks and its percentage of the parent total is >= 1; the
\* "other" line is printed iff there are more than 5 tasks and the hours of
\* the tasks after the fifth sum to more than 0, and it then carries the
\* number of those tasks and that sum.
C9_ReportListsTopFiveAndOthers ==
    \A i \in 1..Len(report) :
        LET e == report[i]
            rest == [k \in 1..(Len(e.ranked) - 5) |-> e.ranked[k + 5][2]]
        IN  /\ \A j \in 1..Len(e.ranked) :
                (\E l \in 1..Len(e.lines) : e.lines[l] = e.ranked[j]) <=>
                    /\ j =< 5
                    /\ \/ e.total > 0 /\ 100 * e.ranked[j][2] >= e.total
                       \/ e.total < 0 /\ 100 * e.ranked[j][2] =< e.total
            /\ Len(e.lines) =< 5
            /\ (e.other # <<>>) <=> (Len(e.ranked) > 5 /\ FSum(rest) > 0)
            /\ e.other # <<>> => e.other = <<Len(e.ranked) - 5, FSum(rest)>>

C9_Witness ==
    /\ pc = "done"
    /\ \E i \in 1..Len(report) :
        /\ Len(report[i].ranked) > 5
        /\ report[i].other # <<>>
        /\ Len(report[i].lines) >= 1
        /\ Len(report[i].lines) < 5
        /\ \E j \in 1..5 : report[i].ranked[j][2] > 0
                /\ \A l \in 1..Len(report[i].lines) : report[i].lines[l] # report[i].ranked[j]

\* The aggregation loop has run to its end.
AggregationOver ==
    \/ pc = "aggregate" /\ idx > Len(data)
    \/ pc \in {"bars", "labels", "report", "done", "crash", "exited"}

\* C10: once the aggregation loop is over, no step changes data, parent_data
\* or parent_totals (keys and values).
C10_NoMutationAfterAggregation ==
    [][AggregationOver => UNCHANGED <<data, parent_data, parent_totals>>]_vars

C10_Witness ==
    /\ pc = "done"
    /\ Len(bars) = 2 /\ Len(top_labels) = 2 /\ Len(report) = 2
    /\ Cardinality(DOMAIN parent_data) = 2
    /\ Cardinality(DOMAIN parent_totals) = 2

=============================================================================
